---------------------------- MODULE Spec2Model ----------------------------
(***************************************************************************)
(* socket-agent: the bearer-token authentication middleware                *)
(* (socket_agent/auth.py) with its TTL token cache, the get_current_user   *)
(* dependency and the auth_required decorator.                             *)
(*                                                                         *)
(* Python values are modelled as follows.  None is the record None; a str  *)
(* that can also be None is wrapped by Str; an Authorization header is a   *)
(* sequence of characters, so that startswith and slicing are computed; a  *)
(* pydantic model is a record tagged with its class in the field cls, and  *)
(* a dict is a record without that tag.                                    *)
(***************************************************************************)
EXTENDS Integers, Sequences, FiniteSets, TLC

VARIABLES
    now,      \* time.time(), in seconds
    ttl,      \* TokenCache.ttl, fixed at construction
    cache,    \* TokenCache._cache: digest -> [result, timestamp]
    pending,  \* per token: the requests suspended in client.get with that token
    last,     \* what the latest step did to a request: completed or suspended it, or None
    routes,      \* app.routes, in registration order
    config,      \* the arguments the middleware was constructed with
    descriptor,  \* SocketAgentMiddleware._descriptor
    served,      \* what the latest GET of the discovery endpoint did, or None
    flight       \* the outbound calls in flight, one by one, in the order issued

auth_vars == <<now, ttl, cache, pending, last>>
descriptor_vars == <<routes, config, descriptor, served>>
vars == <<now, ttl, cache, pending, last, routes, config, descriptor, served, flight>>

-----------------------------------------------------------------------------
(* Bounds of the model *)

MaxTime == 3
MaxInFlight == 2

CacheTtl == 2

-----------------------------------------------------------------------------
(* Python values *)

None == [none |-> TRUE]
Str(s) == [str |-> s]

\* bool(v) for the values the code tests: None and "" are falsy, objects are truthy
Truthy(v) == v # None /\ v # Str(<<>>)

Bearer == <<"B", "e", "a", "r", "e", "r", " ">>
LowerBearer == <<"b", "e", "a", "r", "e", "r", " ">>

\* str.startswith
startswith(s, prefix) ==
    /\ Len(s) >= Len(prefix)
    /\ SubSeq(s, 1, Len(prefix)) = prefix

\* s[n:]
SliceFrom(s, n) == SubSeq(s, n + 1, Len(s))

Tokens == {<<"a">>, <<"b">>}

\* the Authorization header of a request: absent, empty, a bearer token, or a
\* lower-case scheme
Headers ==
    {None, Str(<<>>)}
        \cup {Str(Bearer \o t) : t \in Tokens}
        \cup {Str(LowerBearer \o <<"a">>)}

-----------------------------------------------------------------------------
(* User and TokenValidationResult *)

UserRequired == {"id", "username", "created_at"}

\* whether User(**data) validates: every required field is given
UserAccepts(data) == UserRequired \subseteq DOMAIN data

\* User(**data) for data it accepts; email defaults to None
User(data) ==
    [cls |-> "User",
     id |-> data.id,
     username |-> data.username,
     email |-> IF "email" \in DOMAIN data THEN data.email ELSE None,
     created_at |-> data.created_at]

TokenValidationResult(valid, user, error) ==
    [cls |-> "TokenValidationResult", valid |-> valid, user |-> user, error |-> error]

\* BaseModel.model_dump: the fields as a dict, nested models dumped too
DumpFields(obj) == [f \in DOMAIN obj \ {"cls"} |-> obj[f]]

model_dump(result) ==
    [valid |-> result.valid,
     user |-> IF result.user = None THEN None ELSE DumpFields(result.user),
     error |-> result.error]

\* TokenValidationResult(**d): the nested user dict is validated into a User
LoadResult(d) ==
    TokenValidationResult(d.valid,
                          IF d.user = None THEN None ELSE User(d.user),
                          d.error)

-----------------------------------------------------------------------------
(* TokenCache *)

\* hash_token with a key that does not depend on the token
hash_token_constant(token) == [sha256 |-> <<>>]

\* sha256(token).hexdigest(), taken as collision-free
hash_token(token) == [sha256 |-> token]

\* TokenCache.get looking the raw token up instead of its digest: never found
TokenCache_get_raw_key(c, token, t) ==
    IF [raw |-> token] \in DOMAIN c
    THEN [result |-> LoadResult(c[[raw |-> token]].result), cache |-> c]
    ELSE [result |-> None, cache |-> c]

\* TokenCache.get without the expiry test
TokenCache_get_no_expiry(c, token, t) ==
    LET token_hash == hash_token(token) IN
    IF token_hash \in DOMAIN c
    THEN [result |-> LoadResult(c[token_hash].result), cache |-> c]
    ELSE [result |-> None, cache |-> c]

\* TokenCache.get with <= for <
TokenCache_get_le(c, token, t) ==
    LET token_hash == hash_token(token) IN
    IF token_hash \in DOMAIN c
    THEN LET entry == c[token_hash] IN
         IF t - entry.timestamp <= ttl
         THEN [result |-> LoadResult(entry.result), cache |-> c]
         ELSE [result |-> None,
               cache |-> [k \in DOMAIN c \ {token_hash} |-> c[k]]]
    ELSE [result |-> None, cache |-> c]

\* TokenCache.get that sweeps every expired entry when it finds one
TokenCache_get_sweeping(c, token, t) ==
    LET token_hash == hash_token(token) IN
    IF token_hash \in DOMAIN c
    THEN LET entry == c[token_hash] IN
         IF t - entry.timestamp < ttl
         THEN [result |-> LoadResult(entry.result), cache |-> c]
         ELSE [result |-> None,
               cache |-> [k \in {j \in DOMAIN c : t - c[j].timestamp < ttl} |-> c[k]]]
    ELSE [result |-> None, cache |-> c]

\* TokenCache.get that restarts the ttl of the entry it returns
TokenCache_get_refreshing(c, token, t) ==
    LET token_hash == hash_token(token) IN
    IF token_hash \in DOMAIN c
    THEN LET entry == c[token_hash] IN
         IF t - entry.timestamp < ttl
         THEN [result |-> LoadResult(entry.result),
               cache |-> [c EXCEPT ![token_hash].timestamp = t]]
         ELSE [result |-> None,
               cache |-> [k \in DOMAIN c \ {token_hash} |-> c[k]]]
    ELSE [result |-> None, cache |-> c]

\* TokenCache.get at time t: the verdict returned (or None) and the cache left
TokenCache_get(c, token, t) ==
    LET token_hash == hash_token(token) IN
    IF token_hash \in DOMAIN c
    THEN LET entry == c[token_hash] IN
         IF t - entry.timestamp < ttl
         THEN [result |-> LoadResult(entry.result), cache |-> c]
         ELSE [result |-> None,
               cache |-> [k \in DOMAIN c \ {token_hash} |-> c[k]]]
    ELSE [result |-> None, cache |-> c]

\* TokenCache.set that keeps valid verdicts only
TokenCache_set_only_valid(c, token, result, t) ==
    LET token_hash == hash_token(token) IN
    IF result.valid
    THEN [k \in DOMAIN c \cup {token_hash} |->
             IF k = token_hash
             THEN [result |-> model_dump(result), timestamp |-> t]
             ELSE c[k]]
    ELSE c

\* TokenCache.set keyed by the token itself
TokenCache_set_raw_key(c, token, result, t) ==
    LET token_hash == [raw |-> token] IN
    [k \in DOMAIN c \cup {token_hash} |->
        IF k = token_hash
        THEN [result |-> model_dump(result), timestamp |-> t]
        ELSE c[k]]

\* TokenCache.set that leaves an entry already there alone
TokenCache_set_if_absent(c, token, result, t) ==
    LET token_hash == hash_token(token) IN
    IF token_hash \in DOMAIN c
    THEN c
    ELSE [k \in DOMAIN c \cup {token_hash} |->
             IF k = token_hash
             THEN [result |-> model_dump(result), timestamp |-> t]
             ELSE c[k]]

\* TokenCache.set at time t
TokenCache_set(c, token, result, t) ==
    LET token_hash == hash_token(token) IN
    [k \in DOMAIN c \cup {token_hash} |->
        IF k = token_hash
        THEN [result |-> model_dump(result), timestamp |-> t]
        ELSE c[k]]

-----------------------------------------------------------------------------
(* The outbound validation call: GET <identity_service_url>/v1/me *)

Response(status_code, json) == [status_code |-> status_code, json |-> json]
Raised(message) == [raised |-> message]

\* a payload User accepts, one it rejects (no username), and an empty body
UserPayload == [id |-> 7, username |-> "alice", created_at |-> "2025-01-01"]
BadPayload == [id |-> 7]
NoPayload == [detail |-> "n/a"]

\* what the call can end in: a response of the identity service, or an
\* exception of the client (a refused connection, the per-call timeout)
Outcomes ==
    {Response(200, UserPayload), Response(200, BadPayload),
     Response(401, NoPayload), Response(500, NoPayload),
     Raised("timed out")}

\* str(e) of the ValidationError User(**user_data) raises
UserValidationError == "1 validation error for User"

\* validate_outcome without the branch for the other statuses
validate_outcome_401_only(outcome) ==
    IF "raised" \in DOMAIN outcome
    THEN TokenValidationResult(FALSE, None, Str("Validation error: " \o outcome.raised))
    ELSE IF outcome.status_code = 200
    THEN IF UserAccepts(outcome.json)
         THEN TokenValidationResult(TRUE, User(outcome.json), None)
         ELSE TokenValidationResult(FALSE, None,
                                    Str("Validation error: " \o UserValidationError))
    ELSE TokenValidationResult(FALSE, None, Str("Invalid token"))

\* validate_outcome that takes every 200 for valid, user or not
validate_outcome_valid_without_user(outcome) ==
    IF "raised" \in DOMAIN outcome
    THEN TokenValidationResult(FALSE, None, Str("Validation error: " \o outcome.raised))
    ELSE IF outcome.status_code = 200
    THEN IF UserAccepts(outcome.json)
         THEN TokenValidationResult(TRUE, User(outcome.json), None)
         ELSE TokenValidationResult(TRUE, None, None)
    ELSE IF outcome.status_code = 401
    THEN TokenValidationResult(FALSE, None, Str("Invalid token"))
    ELSE TokenValidationResult(FALSE, None,
                               Str("Validation failed: " \o ToString(outcome.status_code)))

\* _validate_token after the cache miss: the verdict built from the call's outcome
validate_outcome(outcome) ==
    IF "raised" \in DOMAIN outcome
    THEN TokenValidationResult(FALSE, None, Str("Validation error: " \o outcome.raised))
    ELSE IF outcome.status_code = 200
    THEN IF UserAccepts(outcome.json)
         THEN TokenValidationResult(TRUE, User(outcome.json), None)
         ELSE TokenValidationResult(FALSE, None,
                                    Str("Validation error: " \o UserValidationError))
    ELSE IF outcome.status_code = 401
    THEN TokenValidationResult(FALSE, None, Str("Invalid token"))
    ELSE TokenValidationResult(FALSE, None,
                               Str("Validation failed: " \o ToString(outcome.status_code)))

-----------------------------------------------------------------------------
(* The request context and the handlers *)

\* request.state as _middleware first sets it
EmptyState == [auth |-> None, user |-> None]

\* attach that leaves the error text out of request.state.auth
attach_without_error(token, validation_result) ==
    IF validation_result.valid
    THEN [auth |-> [token |-> token, valid |-> TRUE],
          user |-> validation_result.user]
    ELSE [auth |-> [token |-> token, valid |-> FALSE],
          user |-> None]

\* _middleware: the verdict attached to request.state
attach(token, validation_result) ==
    IF validation_result.valid
    THEN [auth |-> [token |-> token, valid |-> TRUE],
          user |-> validation_result.user]
    ELSE [auth |-> [token |-> token, valid |-> FALSE, error |-> validation_result.error],
          user |-> None]

\* dict.get(key, default)
DictGet(d, key, default) == IF key \in DOMAIN d THEN d[key] ELSE default

HTTPException(status_code, detail) ==
    [raised |-> [status_code |-> status_code, detail |-> detail]]

\* get_current_user that lets a request without a verdict through, with no user
get_current_user_anonymous(state) ==
    IF ~("auth" \in DOMAIN state) \/ ~Truthy(state.auth)
    THEN [returned |-> None]
    ELSE IF ~DictGet(state.auth, "valid", FALSE)
    THEN HTTPException(401, DictGet(state.auth, "error", Str("Invalid token")))
    ELSE [returned |-> state.user]

\* get_current_user: the user returned, or the HTTPException raised
get_current_user(state) ==
    IF ~("auth" \in DOMAIN state) \/ ~Truthy(state.auth)
    THEN HTTPException(401, Str("Authentication required"))
    ELSE IF ~DictGet(state.auth, "valid", FALSE)
    THEN HTTPException(401, DictGet(state.auth, "error", Str("Invalid token")))
    ELSE IF ~("user" \in DOMAIN state) \/ ~Truthy(state.user)
    THEN HTTPException(401, Str("User information not available"))
    ELSE [returned |-> state.user]

\* auth_required(scopes)(func): the metadata is stored on func, and func is returned
auth_required(func, scopes) ==
    [f \in DOMAIN func \cup {"socket_auth"} |->
        IF f = "socket_auth"
        THEN [required |-> TRUE, scopes |-> scopes]
        ELSE func[f]]

\* a handler function: its name and whether it declares Depends(get_current_user)
Func(name, depends) == [name |-> name, depends |-> depends]

health_check == Func("health_check", FALSE)
list_todos == auth_required(Func("list_todos", TRUE), <<>>)
decorated_only == auth_required(Func("decorated_only", FALSE), <<>>)

Handlers == {health_check, list_todos, decorated_only}

\* a handler that declares a scope list
create_todo == auth_required(Func("create_todo", TRUE), <<"write:todos">>)

\* the handlers whose declarations differ in the scope list only
ScopedHandlers == {list_todos, create_todo}

\* whether the handler carries the auth_required decoration
Decorated(func) == "socket_auth" \in DOMAIN func /\ func.socket_auth.required

\* call_next refusing a handler whose declared scopes the verdict does not grant
call_next_enforcing_scopes(state, func) ==
    IF "socket_auth" \in DOMAIN func /\ func.socket_auth.scopes # <<>>
    THEN [status_code |-> 403, detail |-> Str("Insufficient scope"),
          ran |-> FALSE, user |-> None]
    ELSE IF func.depends
    THEN LET dep == get_current_user(state) IN
         IF "raised" \in DOMAIN dep
         THEN [status_code |-> dep.raised.status_code, detail |-> dep.raised.detail,
               ran |-> FALSE, user |-> None]
         ELSE [status_code |-> 200, detail |-> None, ran |-> TRUE, user |-> dep.returned]
    ELSE [status_code |-> 200, detail |-> None, ran |-> TRUE, user |-> None]

\* call_next: the framework resolves the handler's dependencies, then runs its
\* body; a dependency that raises ends the request with that failure
call_next(state, func) ==
    IF func.depends
    THEN LET dep == get_current_user(state) IN
         IF "raised" \in DOMAIN dep
         THEN [status_code |-> dep.raised.status_code, detail |-> dep.raised.detail,
               ran |-> FALSE, user |-> None]
         ELSE [status_code |-> 200, detail |-> None, ran |-> TRUE, user |-> dep.returned]
    ELSE [status_code |-> 200, detail |-> None, ran |-> TRUE, user |-> None]

-----------------------------------------------------------------------------
(* The middleware *)

\* whether _middleware takes the header for a bearer token
IsBearer(authorization) ==
    Truthy(authorization) /\ startswith(authorization.str, Bearer)

\* Completed for a middleware that answers 401 itself on a negative verdict
Completed_rejecting(authorization, func, validation_result, outbound, outcome, state) ==
    [kind |-> "completed",
     authorization |-> authorization,
     handler |-> func,
     result |-> validation_result,
     outbound |-> outbound,
     outcome |-> outcome,
     state |-> state,
     response |-> IF validation_result # None /\ ~validation_result.valid
                  THEN [status_code |-> 401, detail |-> validation_result.error,
                        ran |-> FALSE, user |-> None]
                  ELSE call_next(state, func)]

\* the record of a completed request: what it carried, the verdict
\* _validate_token returned to it (None when it was not called), the outbound
\* calls it issued and what its call ended in, its context, and the response
\* of call_next
Completed(authorization, func, validation_result, outbound, outcome, state) ==
    [kind |-> "completed",
     authorization |-> authorization,
     handler |-> func,
     result |-> validation_result,
     outbound |-> outbound,
     outcome |-> outcome,
     state |-> state,
     response |-> call_next(state, func)]

\* the record of a request suspended in its outbound call: the token it
\* validates, and whether its lookup found (and evicted) an expired entry
Suspended(authorization, token, evicted) ==
    [kind |-> "suspended",
     authorization |-> authorization,
     token |-> token,
     evicted |-> evicted]

RECURSIVE SumOver(_, _)
SumOver(f, S) ==
    IF S = {} THEN 0
    ELSE LET x == CHOOSE y \in S : TRUE IN f[x] + SumOver(f, S \ {x})

\* the outbound calls in flight
InFlight == SumOver(pending, Tokens)

\* Request that does not reset request.state: a request without a bearer
\* token sees the context of the request before it
Request_keeping_context(authorization, func) ==
    /\ IF IsBearer(authorization)
       THEN LET token == SliceFrom(authorization.str, 7)
                got == TokenCache_get(cache, token, now)
            IN
            /\ cache' = got.cache
            /\ IF Truthy(got.result)
               THEN /\ last' = Completed(authorization, func, got.result, 0, None,
                                         attach(token, got.result))
                    /\ pending' = pending
               ELSE /\ InFlight < MaxInFlight
                    /\ pending' = [pending EXCEPT ![token] = @ + 1]
                    /\ last' = Suspended(authorization, token, got.cache # cache)
       ELSE /\ last' = Completed(authorization, func, None, 0, None,
                                 IF last # None /\ last.kind = "completed"
                                 THEN last.state ELSE EmptyState)
            /\ UNCHANGED <<cache, pending>>
    /\ UNCHANGED <<now, ttl>>

\* Request that joins a call already in flight for its token instead of
\* issuing its own
Request_coalescing(authorization, func) ==
    /\ IF IsBearer(authorization)
       THEN LET token == SliceFrom(authorization.str, 7)
                got == TokenCache_get(cache, token, now)
            IN
            /\ cache' = got.cache
            /\ IF Truthy(got.result)
               THEN /\ last' = Completed(authorization, func, got.result, 0, None,
                                         attach(token, got.result))
                    /\ pending' = pending
               ELSE /\ InFlight < MaxInFlight
                    /\ pending' = IF pending[token] > 0 THEN pending
                                  ELSE [pending EXCEPT ![token] = @ + 1]
                    /\ last' = Suspended(authorization, token, got.cache # cache)
       ELSE /\ last' = Completed(authorization, func, None, 0, None, EmptyState)
            /\ UNCHANGED <<cache, pending>>
    /\ UNCHANGED <<now, ttl>>

\* _middleware up to its first suspension, for a request the router will
\* dispatch to func (the middleware never reads the route): a request without
\* a bearer token, or whose token hits the cache, runs to its response; on a
\* miss the outbound call is issued and the coroutine waits for it
Request(authorization, func) ==
    /\ IF IsBearer(authorization)
       THEN LET token == SliceFrom(authorization.str, 7)
                got == TokenCache_get(cache, token, now)
            IN
            /\ cache' = got.cache
            /\ IF Truthy(got.result)
               THEN /\ last' = Completed(authorization, func, got.result, 0, None,
                                         attach(token, got.result))
                    /\ pending' = pending
               ELSE /\ InFlight < MaxInFlight
                    /\ pending' = [pending EXCEPT ![token] = @ + 1]
                    /\ last' = Suspended(authorization, token, got.cache # cache)
       ELSE /\ last' = Completed(authorization, func, None, 0, None, EmptyState)
            /\ UNCHANGED <<cache, pending>>
    /\ UNCHANGED <<now, ttl>>

\* Respond that issues the call again when it raised, within the same request
Respond_retrying(token, outcome, func) ==
    /\ pending[token] > 0
    /\ IF "raised" \in DOMAIN outcome
       THEN /\ last' = Suspended(Str(Bearer \o token), token, FALSE)
            /\ UNCHANGED <<cache, pending>>
       ELSE LET result == validate_outcome(outcome) IN
            /\ cache' = TokenCache_set(cache, token, result, now)
            /\ last' = Completed(Str(Bearer \o token), func, result, 1, outcome,
                                 attach(token, result))
            /\ pending' = [pending EXCEPT ![token] = @ - 1]
    /\ UNCHANGED <<now, ttl>>

\* Respond that caches the verdict only when the call did not raise
Respond_errors_uncached(token, outcome, func) ==
    /\ pending[token] > 0
    /\ LET result == validate_outcome(outcome) IN
       /\ cache' = IF "raised" \in DOMAIN outcome
                   THEN cache
                   ELSE TokenCache_set(cache, token, result, now)
       /\ last' = Completed(Str(Bearer \o token), func, result, 1, outcome,
                            attach(token, result))
    /\ pending' = [pending EXCEPT ![token] = @ - 1]
    /\ UNCHANGED <<now, ttl>>

\* the outbound call of one request carrying token ends in outcome:
\* _validate_token builds the verdict, caches it and returns it, and
\* _middleware runs to its response, call_next dispatching the request to func
Respond(token, outcome, func) ==
    /\ pending[token] > 0
    /\ LET result == validate_outcome(outcome) IN
       /\ cache' = TokenCache_set(cache, token, result, now)
       /\ last' = Completed(Str(Bearer \o token), func, result, 1, outcome,
                            attach(token, result))
    /\ pending' = [pending EXCEPT ![token] = @ - 1]
    /\ UNCHANGED <<now, ttl>>

\* a second passes
Tick ==
    /\ now < MaxTime
    /\ now' = now + 1
    /\ last' = None
    /\ UNCHANGED <<ttl, cache, pending>>

-----------------------------------------------------------------------------
(* The routes of the application and their metadata *)

\* a list that can also be None
List(items) == [list |-> items]

\* a JSON-Schema fragment, kept as the number of bytes it serializes to
Fragment(bytes) == [json_bytes |-> bytes]

\* socket.describe(summary, ...)(func): the metadata is stored on func
describe(func, meta) ==
    [f \in DOMAIN func \cup {"socket_meta"} |->
        IF f = "socket_meta" THEN meta ELSE func[f]]

\* hasattr(func, "_socket_meta"), getattr(func, "_socket_auth", {})
HasMeta(func) == "socket_meta" \in DOMAIN func
AuthOf(func) == IF "socket_auth" \in DOMAIN func THEN func.socket_auth ELSE <<>>

APIRoute(path, methods, endpoint) ==
    [cls |-> "APIRoute", path |-> path, methods |-> methods, endpoint |-> endpoint]

\* a route of another class (a mounted application)
Mount(path, endpoint) ==
    [cls |-> "Mount", path |-> path, methods |-> {}, endpoint |-> endpoint]

WellKnown == "/.well-known"
DiscoveryPath == "/.well-known/socket-agent"

\* the route SocketAgentMiddleware.__init__ adds for _serve_descriptor
DiscoveryRoute == APIRoute(DiscoveryPath, {"GET"}, Func("_serve_descriptor", FALSE))

\* the handlers an application registers: described or not, with or without
\* an auth requirement, under the discovery path, and mounted.  The response
\* schema of list_items serializes to schema_bytes bytes.
HealthRoute == APIRoute("/health", {"GET"}, health_check)

PrivateRoute == APIRoute("/private", {"GET"}, decorated_only)

ListTodosRoute ==
    APIRoute("/todos", {"GET"},
             describe(list_todos,
                      [summary |-> "List all todos",
                       response_schema |-> Fragment(64),
                       examples |-> List(<<"curl /todos">>)]))

CreateTodoRoute ==
    APIRoute("/todos", {"POST"},
             describe(create_todo,
                      [summary |-> "Create a new todo item",
                       request_schema |-> Fragment(48),
                       response_schema |-> None,
                       examples |-> List(<<"curl -X POST /todos", "curl -d x /todos">>)]))

ItemsRoute(schema_bytes) ==
    APIRoute("/items", {"GET", "POST"},
             describe(Func("list_items", FALSE),
                      [summary |-> "Items",
                       response_schema |-> Fragment(schema_bytes)]))

DebugRoute ==
    APIRoute("/.well-known/socket-agent/debug", {"GET"},
             describe(auth_required(Func("debug", FALSE), <<"admin">>),
                      [summary |-> "Debug the descriptor",
                       request_schema |-> Fragment(32),
                       examples |-> List(<<"curl /.well-known/socket-agent/debug">>)]))

MountedRoute ==
    Mount("/static",
          describe(auth_required(Func("static", FALSE), <<>>),
                   [summary |-> "Static files",
                    examples |-> List(<<"curl /static">>)]))

\* handlers of the example application that share the path of one todo
update_todo == auth_required(Func("update_todo", TRUE), <<"write:todos">>)
delete_todo == auth_required(Func("delete_todo", TRUE), <<"write:todos">>)

UpdateTodoRoute ==
    APIRoute("/todos/{todo_id}", {"PUT"},
             describe(update_todo,
                      [summary |-> "Update a todo item",
                       request_schema |-> Fragment(96),
                       response_schema |-> Fragment(112)]))

DeleteTodoRoute ==
    APIRoute("/todos/{todo_id}", {"DELETE"},
             describe(delete_todo, [summary |-> "Delete a todo item"]))

\* a described application route under the well-known prefix, outside the
\* discovery path
JwksRoute ==
    APIRoute("/.well-known/jwks.json", {"GET"},
             describe(Func("jwks", FALSE),
                      [summary |-> "Signing keys",
                       response_schema |-> Fragment(40),
                       examples |-> List(<<"curl /.well-known/jwks.json">>)]))

\* the routes that share a path, and the one under the well-known prefix
PathCatalog ==
    {ListTodosRoute, CreateTodoRoute, UpdateTodoRoute, DeleteTodoRoute, JwksRoute}

Catalog(schema_bytes) ==
    {HealthRoute, PrivateRoute, ListTodosRoute, CreateTodoRoute,
     ItemsRoute(schema_bytes), DebugRoute, MountedRoute}

\* the orders in which a set of methods can be iterated
Methods == {"GET", "POST"}
MethodOrders == {<<"GET", "POST">>, <<"POST", "GET">>}

\* list(route.methods) when sets iterate in the given order
IterateMethods(methods, order) == SelectSeq(order, LAMBDA m : m \in methods)

-----------------------------------------------------------------------------
(* EndpointInfo, AuthInfo, SocketDescriptor and their serialization *)

EndpointInfo(path, method, summary, auth_req, scopes) ==
    [cls |-> "EndpointInfo", path |-> path, method |-> method, summary |-> summary,
     auth_required |-> auth_req, scopes |-> scopes]

AuthInfo(type, description, identity_service_url, server_id, audience) ==
    [cls |-> "AuthInfo", type |-> type, description |-> description,
     identity_service_url |-> identity_service_url, server_id |-> server_id,
     audience |-> audience, scopes |-> None, optional |-> FALSE,
     token_validation |-> None]

SocketDescriptor(name, description, base, endpoints, schemas, auth, examples) ==
    [cls |-> "SocketDescriptor", name |-> name, description |-> description,
     base_url |-> base, endpoints |-> endpoints, schemas |-> schemas,
     auth |-> auth, examples |-> examples, ui |-> None,
     specVersion |-> "2025-01-01"]

\* the fields model_dump(exclude_none=True) keeps of one model object
ExcludeNone(obj, optional) ==
    [f \in (DOMAIN obj \ {"cls"}) \ {g \in optional : obj[g] = None} |-> obj[f]]

EndpointOptional == {"scopes"}
AuthOptional ==
    {"description", "identity_service_url", "server_id", "audience", "scopes",
     "token_validation"}
DescriptorOptional == {"ui"}

\* descriptor.model_dump(exclude_none=True), nested models included
dump_exclude_none(d) ==
    [ExcludeNone(d, DescriptorOptional) EXCEPT
        !.endpoints = [i \in 1..Len(d.endpoints) |->
                          ExcludeNone(d.endpoints[i], EndpointOptional)],
        !.auth = ExcludeNone(d.auth, AuthOptional)]

RECURSIVE SumSeq(_)
SumSeq(sizes) == IF sizes = <<>> THEN 0 ELSE Head(sizes) + SumSeq(Tail(sizes))

\* a set as a sequence, in some order
RECURSIVE SetToSeq(_)
SetToSeq(S) ==
    IF S = {} THEN <<>>
    ELSE LET x == CHOOSE y \in S : TRUE IN <<x>> \o SetToSeq(S \ {x})

\* bytes of json.dumps(..., separators=(",", ":")) for ASCII text without escapes
JsonStr(text) == Len(text) + 2
JsonBool(b) == IF b THEN 4 ELSE 5

\* a list or an object whose items serialize to the given sizes: the
\* brackets, the items and the commas between them
JsonItems(sizes) ==
    2 + SumSeq(sizes) + (IF Len(sizes) > 0 THEN Len(sizes) - 1 ELSE 0)

\* "key":value
JsonMember(key, value_bytes) == JsonStr(key) + 1 + value_bytes

JsonStrList(texts) == JsonItems([i \in 1..Len(texts) |-> JsonStr(texts[i])])

\* an object of the dump whose keys all hold text, except the given
\* boolean and text-list keys
JsonObject(dict, booleans, lists) ==
    LET keys == SetToSeq(DOMAIN dict) IN
    JsonItems([i \in 1..Len(keys) |->
                  JsonMember(keys[i],
                             IF keys[i] \in booleans THEN JsonBool(dict[keys[i]])
                             ELSE IF keys[i] \in lists
                                  THEN JsonStrList(dict[keys[i]].list)
                             ELSE IF keys[i] \in {"path", "method", "summary", "type"}
                                  THEN JsonStr(dict[keys[i]])
                             ELSE JsonStr(dict[keys[i]].str))])

EndpointBytes(ep) == JsonObject(ep, {"auth_required"}, {"scopes"})

AuthBytes(auth) == JsonObject(auth, {"optional"}, {})

\* one entry of the schema map: {"request":...,"response":...}
SchemaEntryBytes(entry) ==
    LET keys == SetToSeq(DOMAIN entry) IN
    JsonItems([i \in 1..Len(keys) |-> JsonMember(keys[i], entry[keys[i]].json_bytes)])

SchemasBytes(schemas) ==
    LET paths == SetToSeq(DOMAIN schemas) IN
    JsonItems([i \in 1..Len(paths) |->
                  JsonMember(paths[i], SchemaEntryBytes(schemas[paths[i]]))])

\* len(json.dumps(dumped, separators=(",", ":")).encode("utf-8"))
JsonBytes(dumped) ==
    JsonItems(<<JsonMember("name", JsonStr(dumped.name)),
                JsonMember("description", JsonStr(dumped.description)),
                JsonMember("base_url", JsonStr(dumped.base_url)),
                JsonMember("endpoints",
                           JsonItems([i \in 1..Len(dumped.endpoints) |->
                                         EndpointBytes(dumped.endpoints[i])])),
                JsonMember("schemas", SchemasBytes(dumped.schemas)),
                JsonMember("auth", AuthBytes(dumped.auth)),
                JsonMember("examples", JsonStrList(dumped.examples)),
                JsonMember("specVersion", JsonStr(dumped.specVersion))>>)

\* the ceilings of build_descriptor, in KB
HardLimitKb == 8
SoftLimitKb == 3
BytesPerKb == 1024

\* SocketDescriptor.size_kb() in bytes: size_kb() is this number / 1024
size_bytes(d) == JsonBytes(dump_exclude_none(d))

\* size_kb() > limit_kb; the division by 1024 is exact in floating point
SizeExceeds_or_reaches(d, limit_kb) == size_bytes(d) >= limit_kb * BytesPerKb
SizeExceeds(d, limit_kb) == size_bytes(d) > limit_kb * BytesPerKb

-----------------------------------------------------------------------------
(* build_descriptor *)

EmptyCollection == [endpoints |-> <<>>, schemas |-> <<>>, examples |-> <<>>]

\* RouteEndpoints with one entry per route: that of the first method iterated
RouteEndpoints_first_method(route, meta, order) ==
    LET auth_info == AuthOf(route.endpoint)
        auth_req == DictGet(auth_info, "required", FALSE)
        scopes == DictGet(auth_info, "scopes", <<>>)
        methods == IterateMethods(route.methods, order)
    IN  [i \in 1..(IF Len(methods) > 0 THEN 1 ELSE 0) |->
            EndpointInfo(route.path, methods[i], DictGet(meta, "summary", ""),
                         auth_req,
                         IF scopes # <<>> THEN List(scopes) ELSE None)]

\* the endpoint entries of one route, one per method
RouteEndpoints(route, meta, order) ==
    LET auth_info == AuthOf(route.endpoint)
        auth_req == DictGet(auth_info, "required", FALSE)
        scopes == DictGet(auth_info, "scopes", <<>>)
        methods == IterateMethods(route.methods, order)
    IN  [i \in 1..Len(methods) |->
            EndpointInfo(route.path, methods[i], DictGet(meta, "summary", ""),
                         auth_req,
                         IF scopes # <<>> THEN List(scopes) ELSE None)]

\* schemas[route.path] filled in without the reset to a fresh dict
RouteSchemas_merging(schemas, route, meta) ==
    LET request == DictGet(meta, "request_schema", None)
        response == DictGet(meta, "response_schema", None)
        kept == IF route.path \in DOMAIN schemas THEN schemas[route.path] ELSE <<>>
        keys == {k \in {"request", "response"} :
                    Truthy(IF k = "request" THEN request ELSE response)}
        entry == [k \in keys \cup DOMAIN kept |->
                     IF k \in keys
                     THEN (IF k = "request" THEN request ELSE response)
                     ELSE kept[k]]
    IN  IF Truthy(request) \/ Truthy(response)
        THEN [p \in DOMAIN schemas \cup {route.path} |->
                 IF p = route.path THEN entry ELSE schemas[p]]
        ELSE schemas

\* schemas[route.path] after the route: a fresh dict with the declared parts
RouteSchemas(schemas, route, meta) ==
    LET request == DictGet(meta, "request_schema", None)
        response == DictGet(meta, "response_schema", None)
        keys == {k \in {"request", "response"} :
                    Truthy(IF k = "request" THEN request ELSE response)}
        entry == [k \in keys |-> IF k = "request" THEN request ELSE response]
    IN  IF Truthy(request) \/ Truthy(response)
        THEN [p \in DOMAIN schemas \cup {route.path} |->
                 IF p = route.path THEN entry ELSE schemas[p]]
        ELSE schemas

RouteExamples(meta) ==
    LET examples == DictGet(meta, "examples", None)
    IN  IF Truthy(examples) THEN examples.list ELSE <<>>

Collect(acc, route, meta, order) ==
    [endpoints |-> acc.endpoints \o RouteEndpoints(route, meta, order),
     schemas |-> RouteSchemas(acc.schemas, route, meta),
     examples |-> acc.examples \o RouteExamples(meta)]

\* mutations of the loop body
visit_undescribed_too(acc, route, order) ==
    IF route.cls # "APIRoute" THEN acc
    ELSE IF startswith(route.path, WellKnown) THEN acc
    ELSE IF HasMeta(route.endpoint)
         THEN Collect(acc, route, route.endpoint.socket_meta, order)
    ELSE Collect(acc, route, <<>>, order)

visit_newest_first(acc, route, order) ==
    IF route.cls # "APIRoute" THEN acc
    ELSE IF startswith(route.path, WellKnown) THEN acc
    ELSE IF HasMeta(route.endpoint)
         THEN LET meta == route.endpoint.socket_meta IN
              [endpoints |-> RouteEndpoints(route, meta, order) \o acc.endpoints,
               schemas |-> RouteSchemas(acc.schemas, route, meta),
               examples |-> RouteExamples(meta) \o acc.examples]
    ELSE acc

visit_skipping_exact_path(acc, route, order) ==
    IF route.cls # "APIRoute" THEN acc
    ELSE IF route.path = DiscoveryPath THEN acc
    ELSE IF HasMeta(route.endpoint)
         THEN Collect(acc, route, route.endpoint.socket_meta, order)
    ELSE acc

visit_skipping_discovery_prefix(acc, route, order) ==
    IF route.cls # "APIRoute" THEN acc
    ELSE IF startswith(route.path, DiscoveryPath) THEN acc
    ELSE IF HasMeta(route.endpoint)
         THEN Collect(acc, route, route.endpoint.socket_meta, order)
    ELSE acc

\* one iteration of "for route in app.routes"
visit(acc, route, order) ==
    IF route.cls # "APIRoute" THEN acc
    ELSE IF startswith(route.path, WellKnown) THEN acc
    ELSE IF HasMeta(route.endpoint)
         THEN Collect(acc, route, route.endpoint.socket_meta, order)
    ELSE acc

RECURSIVE walk(_, _, _, _)
walk(app_routes, i, acc, order) ==
    IF i > Len(app_routes) THEN acc
    ELSE walk(app_routes, i + 1, visit(acc, app_routes[i], order), order)

has_auth_of_scoped(endpoints) ==
    \E i \in 1..Len(endpoints) : endpoints[i].scopes # None

\* len([ep for ep in endpoints if ep.auth_required]) > 0
has_auth(endpoints) ==
    \E i \in 1..Len(endpoints) : endpoints[i].auth_required

NoAuth == AuthInfo("none", None, None, None, None)

BearerAuth(auth_config) ==
    AuthInfo("bearer", Str("JWT tokens from socketagent.id"),
             DictGet(auth_config, "identity_service_url", Str("https://socketagent.io")),
             DictGet(auth_config, "server_id", None),
             Str("api"))

\* ValueError(f"Descriptor size ({size_kb:.2f}KB) exceeds 8KB limit. ..."): the
\* text, and the size it reports
ValueError(d) ==
    [raised |-> "ValueError", message |-> "Descriptor size exceeds 8KB limit",
     bytes |-> size_bytes(d)]
Returned(d, warned) == [returned |-> d, warned |-> warned]
IsReturned(result) == "returned" \in DOMAIN result

\* the size checks at the end of build_descriptor
check_size_soft_fatal(d) ==
    IF SizeExceeds(d, SoftLimitKb) THEN ValueError(d)
    ELSE Returned(d, FALSE)

check_size(d) ==
    IF SizeExceeds(d, HardLimitKb) THEN ValueError(d)
    ELSE Returned(d, SizeExceeds(d, SoftLimitKb))

build_descriptor(app_routes, auth_config, name, description, base, order) ==
    LET collected == walk(app_routes, 1, EmptyCollection, order)
        auth == IF has_auth(collected.endpoints)
                THEN BearerAuth(auth_config)
                ELSE NoAuth
    IN  check_size(SocketDescriptor(name, description, base, collected.endpoints,
                                    collected.schemas, auth, collected.examples))

-----------------------------------------------------------------------------
(* SocketAgentMiddleware *)

MaxRoutes == 2

AppName == "Todo API"
AppDescription == "Todo list management"
DefaultIdentityService == "https://socketagent.io"

\* scheme://netloc of the requests the application receives
Hosts == {"http://a.test", "http://b.test"}

\* the size of the descriptor around a response schema of list_items, when
\* list_items is the only listed route and the base URL comes from the request
ReferenceBytes ==
    size_bytes(SocketDescriptor(AppName, AppDescription, "http://a.test",
                                walk(<<ItemsRoute(0)>>, 1, EmptyCollection,
                                     <<"GET", "POST">>).endpoints,
                                [p \in {"/items"} |-> [k \in {"response"} |-> Fragment(0)]],
                                NoAuth, <<>>))

\* sizes of that schema: small, and on either side of both ceilings
SchemaSizes ==
    {120,
     SoftLimitKb * BytesPerKb - ReferenceBytes,
     SoftLimitKb * BytesPerKb - ReferenceBytes + 1,
     HardLimitKb * BytesPerKb - ReferenceBytes,
     HardLimitKb * BytesPerKb - ReferenceBytes + 1}

\* the arguments of SocketAgentMiddleware(app, name=..., ...) and the size of
\* the schema the application declares
Config(base, server_id, schema_bytes) ==
    [base_url |-> base, auth_server_id |-> server_id, schema_bytes |-> schema_bytes]

\* every schema size when the base URL comes from the request, and one
\* configuration that sets the base URL and the server id
Configs ==
    {Config(None, None, b) : b \in SchemaSizes}
    \cup {Config(Str("https://api.test"), Str("srv_1"), 120)}

\* app.state.socket_agent_auth as __init__ leaves it
socket_agent_auth(cfg) ==
    [server_id |-> cfg.auth_server_id,
     identity_service_url |-> Str(DefaultIdentityService)]

JSONResponse(content, status_code, headers) ==
    [status_code |-> status_code, content |-> content, headers |-> headers]

DescriptorHeaders ==
    [content_type |-> "application/json",
     cache_control |-> "public, max-age=3600",
     vary |-> "Host"]

DefaultHeaders == [content_type |-> "application/json"]

\* _build_descriptor without the "is None" test
build_every_time(self_descriptor, cfg, app_routes, host, order) ==
    LET base == IF cfg.base_url = None THEN host ELSE cfg.base_url.str
    IN  [built |-> TRUE,
         result |-> build_descriptor(app_routes, socket_agent_auth(cfg), AppName,
                                     AppDescription, base, order)]

\* _build_descriptor deriving base_url from every request's Host
build_or_reuse_rebasing(self_descriptor, cfg, app_routes, host, order) ==
    LET base == IF cfg.base_url = None THEN host ELSE cfg.base_url.str
    IN  IF self_descriptor = None
        THEN [built |-> TRUE,
              result |-> build_descriptor(app_routes, socket_agent_auth(cfg), AppName,
                                          AppDescription, base, order)]
        ELSE [built |-> FALSE,
              result |-> Returned([self_descriptor EXCEPT !.base_url = base], FALSE)]

\* _build_descriptor: whether build_descriptor ran, and what came out
build_or_reuse(self_descriptor, cfg, app_routes, host, order) ==
    IF self_descriptor = None
    THEN LET base == IF cfg.base_url = None THEN host ELSE cfg.base_url.str
         IN  [built |-> TRUE,
              result |-> build_descriptor(app_routes, socket_agent_auth(cfg), AppName,
                                          AppDescription, base, order)]
    ELSE [built |-> FALSE, result |-> Returned(self_descriptor, FALSE)]

\* _serve_descriptor with the error swallowed into an empty success
respond_always_200(result) ==
    IF IsReturned(result)
    THEN JSONResponse(dump_exclude_none(result.returned), 200, DescriptorHeaders)
    ELSE JSONResponse([error |-> result.message], 200, DefaultHeaders)

\* the try/except of _serve_descriptor
respond(result) ==
    IF IsReturned(result)
    THEN JSONResponse(dump_exclude_none(result.returned), 200, DescriptorHeaders)
    ELSE JSONResponse([error |-> result.message], 500, DefaultHeaders)

\* what the last GET of the discovery endpoint did
Served(response, outcome, app_routes, host) ==
    [response |-> response, built |-> outcome.built, result |-> outcome.result,
     routes |-> app_routes, host |-> host]

\* ServeDescriptor that memoizes an empty descriptor when the build raises
ServeDescriptor_memoizing_failure(host, order) ==
    LET outcome == build_or_reuse(descriptor, config, routes, host, order) IN
    /\ descriptor' = IF IsReturned(outcome.result) THEN outcome.result.returned
                     ELSE SocketDescriptor(AppName, AppDescription, host, <<>>, <<>>,
                                           NoAuth, <<>>)
    /\ served' = Served(respond(outcome.result), outcome, routes, host)
    /\ UNCHANGED <<routes, config>>

\* GET /.well-known/socket-agent
ServeDescriptor(host, order) ==
    LET outcome == build_or_reuse(descriptor, config, routes, host, order) IN
    /\ descriptor' = IF IsReturned(outcome.result) THEN outcome.result.returned
                     ELSE descriptor
    /\ served' = Served(respond(outcome.result), outcome, routes, host)
    /\ UNCHANGED <<routes, config>>

\* the application registers a route
AddRoute(route) ==
    /\ Len(routes) <= MaxRoutes
    /\ \A i \in 1..Len(routes) : routes[i] # route
    /\ routes' = Append(routes, route)
    /\ served' = None
    /\ UNCHANGED <<config, descriptor>>

\* the application drops a route it registered; changed metadata is a route
\* dropped and registered again
RemoveRoute(i) ==
    /\ i \in 2..Len(routes)
    /\ routes' = SubSeq(routes, 1, i - 1) \o SubSeq(routes, i + 1, Len(routes))
    /\ served' = None
    /\ UNCHANGED <<config, descriptor>>

-----------------------------------------------------------------------------
(* The outbound calls one by one *)

\* A record of the calls awaiting client.get, kept next to the count pending:
\* per token the times at which the calls in flight were issued, in the order
\* issued; per token the issue time of the call whose verdict is the cache
\* entry; and for the step that just ended a call, when that call was issued
\* and what its store replaced.
NoFlight ==
    [issued |-> [t \in Tokens |-> <<>>],
     origin |-> [t \in Tokens |-> None],
     answered |-> None]

At(time) == [at |-> time]

\* the sequence without its i-th item
Without(seq, i) == SubSeq(seq, 1, i - 1) \o SubSeq(seq, i + 1, Len(seq))

\* a request, with its call recorded when it issues one
RequestTracked(authorization, func) ==
    /\ Request(authorization, func)
    /\ flight' =
          [issued |-> [t \in Tokens |->
                          IF pending'[t] > pending[t]
                          THEN Append(flight.issued[t], now)
                          ELSE flight.issued[t]],
           origin |-> [t \in Tokens |->
                          IF hash_token(t) \in DOMAIN cache'
                          THEN flight.origin[t] ELSE None],
           answered |-> None]

\* the i-th call in flight for the token ends: calls end in any order
RespondTracked(token, i, outcome, func) ==
    /\ i \in 1..Len(flight.issued[token])
    /\ Respond(token, outcome, func)
    /\ flight' =
          [issued |-> [flight.issued EXCEPT ![token] = Without(@, i)],
           origin |-> [flight.origin EXCEPT ![token] = At(flight.issued[token][i])],
           answered |->
               [issued |-> flight.issued[token][i],
                replaced |-> IF hash_token(token) \in DOMAIN cache
                             THEN [entry |-> cache[hash_token(token)],
                                   issued |-> flight.origin[token]]
                             ELSE None]]

TickTracked ==
    /\ Tick
    /\ flight' = [flight EXCEPT !.answered = None]

\* the state after construction, with the cache's ttl given
Constructed(cache_ttl) ==
    /\ now = 0
    /\ ttl = cache_ttl
    /\ cache = <<>>
    /\ pending = [t \in Tokens |-> 0]
    /\ last = None
    /\ flight = NoFlight

\* SocketAgentMiddleware.__init__: the discovery route is registered, nothing is built
MiddlewareAdded(cfg) ==
    /\ routes = <<DiscoveryRoute>>
    /\ config = cfg
    /\ descriptor = None
    /\ served = None

DefaultConfig == Config(None, None, 120)

Init == Constructed(CacheTtl) /\ MiddlewareAdded(DefaultConfig)

\* construction with either ttl: none at all, or CacheTtl seconds
InitAnyTtl ==
    /\ \E cache_ttl \in {0, CacheTtl} : Constructed(cache_ttl)
    /\ MiddlewareAdded(DefaultConfig)

\* construction with any of the configurations
InitDescriptor ==
    /\ Constructed(CacheTtl)
    /\ \E cfg \in Configs : MiddlewareAdded(cfg)

\* requests to the application's handlers
Next ==
    \/ \E authorization \in Headers, func \in Handlers :
          Request(authorization, func) /\ UNCHANGED <<descriptor_vars, flight>>
    \/ \E token \in Tokens, outcome \in Outcomes, func \in Handlers :
          Respond(token, outcome, func) /\ UNCHANGED <<descriptor_vars, flight>>
    \/ Tick /\ UNCHANGED <<descriptor_vars, flight>>

\* requests to handlers that declare scopes
NextScopes ==
    \/ \E authorization \in Headers, func \in ScopedHandlers :
          Request(authorization, func) /\ UNCHANGED <<descriptor_vars, flight>>
    \/ \E token \in Tokens, outcome \in Outcomes, func \in ScopedHandlers :
          Respond(token, outcome, func) /\ UNCHANGED <<descriptor_vars, flight>>
    \/ Tick /\ UNCHANGED <<descriptor_vars, flight>>

\* route registration and requests to the discovery endpoint
NextDescriptor ==
    \/ \E route \in Catalog(config.schema_bytes) :
          AddRoute(route) /\ UNCHANGED <<auth_vars, flight>>
    \/ \E i \in 2..(MaxRoutes + 1) : RemoveRoute(i) /\ UNCHANGED <<auth_vars, flight>>
    \/ \E host \in Hosts, order \in MethodOrders :
          ServeDescriptor(host, order) /\ UNCHANGED <<auth_vars, flight>>

\* each of these routes has one method, so one iteration order is enough
PathOrders == {<<"GET", "POST", "PUT", "DELETE">>}

\* registration of routes that share a path or lie under the well-known
\* prefix, and requests to the discovery endpoint
NextPaths ==
    \/ \E route \in PathCatalog :
          AddRoute(route) /\ UNCHANGED <<auth_vars, flight>>
    \/ \E i \in 2..(MaxRoutes + 1) : RemoveRoute(i) /\ UNCHANGED <<auth_vars, flight>>
    \/ \E host \in Hosts, order \in PathOrders :
          ServeDescriptor(host, order) /\ UNCHANGED <<auth_vars, flight>>

\* overlapping requests of one client to one handler, call by call
OverlapHeaders == {Str(Bearer \o <<"a">>)}

NextOverlap ==
    \/ \E authorization \in OverlapHeaders :
          RequestTracked(authorization, list_todos) /\ UNCHANGED descriptor_vars
    \/ \E i \in 1..MaxInFlight, outcome \in Outcomes :
          RespondTracked(<<"a">>, i, outcome, list_todos) /\ UNCHANGED descriptor_vars
    \/ TickTracked /\ UNCHANGED descriptor_vars

\* requests of two clients to one handler
NextCache ==
    \/ \E authorization \in Headers :
          Request(authorization, list_todos) /\ UNCHANGED <<descriptor_vars, flight>>
    \/ \E token \in Tokens, outcome \in Outcomes :
          Respond(token, outcome, list_todos) /\ UNCHANGED <<descriptor_vars, flight>>
    \/ Tick /\ UNCHANGED <<descriptor_vars, flight>>

Spec == Init /\ [][Next]_vars

SpecOverlap == Init /\ [][NextOverlap]_vars

SpecCache == Init /\ [][NextCache]_vars

\* the identity service answers, or the call times out: every call in
\* flight ends
SpecOverlapLive ==
    /\ Init
    /\ [][NextOverlap]_vars
    /\ \A i \in 1..MaxInFlight :
          WF_vars(\E outcome \in Outcomes :
                     RespondTracked(<<"a">>, i, outcome, list_todos)
                         /\ UNCHANGED descriptor_vars)

SpecAnyTtl == InitAnyTtl /\ [][Next]_vars

SpecScopes == Init /\ [][NextScopes]_vars

SpecPaths == Init /\ [][NextPaths]_vars
SpecDescriptor == InitDescriptor /\ [][NextDescriptor]_vars

-----------------------------------------------------------------------------
(* Vocabulary of the properties *)

Entry(token) == cache[hash_token(token)]
Cached(token) == hash_token(token) \in DOMAIN cache

\* the entry of token is younger than ttl / has reached ttl
Live(token) == Cached(token) /\ now - Entry(token).timestamp < ttl
Expired(token) == Cached(token) /\ now - Entry(token).timestamp >= ttl

IsCompleted(e) == e # None /\ e.kind = "completed"
IsSuspended(e) == e # None /\ e.kind = "suspended"

\* the event is the completion of a request that carried the bearer token
Validated(e, token) == IsCompleted(e) /\ e.authorization = Str(Bearer \o token)

\* ... served from the cache / after its own outbound call
ServedFromCache(e, token) == Validated(e, token) /\ e.outbound = 0
ServedByCall(e, token) == Validated(e, token) /\ e.outbound = 1

\* the event is a request with the token going out to the identity service
CallIssued(e, token) == IsSuspended(e) /\ e.token = token

-----------------------------------------------------------------------------
(* C1: while the entry of a token is younger than ttl, a validation of that *)
(* token issues no outbound call and returns the stored verdict, which is   *)
(* identical in every field to the verdict that was fetched and stored.     *)

C1_Step ==
    \A t \in Tokens :
        /\ Live(t) =>
              /\ pending'[t] <= pending[t]
              /\ ~CallIssued(last', t)
              /\ ServedFromCache(last', t) =>
                    /\ last'.result = LoadResult(Entry(t).result)
                    /\ cache' = cache
        /\ ServedByCall(last', t) =>
              /\ Cached(t)'
              /\ LoadResult(Entry(t).result)' = last'.result
              /\ LoadResult(Entry(t).result)'.valid = last'.result.valid
              /\ LoadResult(Entry(t).result)'.user = last'.result.user
              /\ LoadResult(Entry(t).result)'.error = last'.result.error

\* C1: a validation within ttl of the store returns the stored verdict, field
\* for field, and issues no outbound call
C1_CachedVerdictReused == [][C1_Step]_vars

\* a valid verdict served from the cache one second after it was stored
C1_Witness ==
    \E t \in Tokens :
        /\ ServedFromCache(last, t)
        /\ last.result.valid
        /\ last.result.user.id = 7
        /\ Cached(t)
        /\ now - Entry(t).timestamp = 1

-----------------------------------------------------------------------------
(* C2: once the entry of a token has reached ttl, the next validation of    *)
(* that token is not served from the cache: it evicts the entry and issues  *)
(* exactly one outbound call, and the verdict it returns is the one built   *)
(* from that call's outcome.                                                *)

C2_Step ==
    \A t \in Tokens :
        /\ Expired(t) =>
              /\ ~ServedFromCache(last', t)
              /\ CallIssued(last', t) =>
                    /\ last'.evicted
                    /\ pending'[t] = pending[t] + 1
                    /\ ~Cached(t)'
        /\ ServedByCall(last', t) =>
              /\ pending'[t] = pending[t] - 1
              /\ last'.result = validate_outcome(last'.outcome)
        /\ IsCompleted(last') => last'.outbound \in {0, 1}

\* C2: the validation after expiry issues exactly one outbound call and returns
\* that call's verdict
C2_ExpiredRevalidated == [][C2_Step]_vars

\* the lookup of a request evicted an expired entry and its call is in flight
C2_Witness ==
    \E t \in Tokens :
        /\ CallIssued(last, t)
        /\ last.evicted
        /\ pending[t] = 1
        /\ now >= ttl

-----------------------------------------------------------------------------
(* C3, as claimed: the verdict of a validation call that raised (a network  *)
(* error, a timeout) is not stored in the token cache.                      *)

RaisedVerdict(e) == IsCompleted(e) /\ e.outbound = 1 /\ "raised" \in DOMAIN e.outcome

C3_Original_ErrorNotCached ==
    \A t \in Tokens :
        (ServedByCall(last, t) /\ RaisedVerdict(last)) =>
            ~(Cached(t) /\ Entry(t).result = model_dump(last.result))

(* C3, amended: the verdict of a validation call that raised is stored like *)
(* any other, stamped with the time the call ended, so a lookup of the      *)
(* token within ttl returns it without a new outbound call.                 *)

C3_ErrorVerdictCached ==
    \A t \in Tokens :
        (ServedByCall(last, t) /\ RaisedVerdict(last)) =>
            /\ ~last.result.valid
            /\ Cached(t)
            /\ Entry(t) = [result |-> model_dump(last.result), timestamp |-> now]
            /\ \A d \in 0..MaxTime :
                  d < ttl => TokenCache_get(cache, t, now + d).result = last.result

\* a timed-out validation has just completed and its verdict is in the cache
C3_Witness ==
    \E t \in Tokens :
        /\ ServedByCall(last, t)
        /\ RaisedVerdict(last)
        /\ last.result.error = Str("Validation error: timed out")
        /\ Live(t)

-----------------------------------------------------------------------------
(* C4: TokenCache.get returns a verdict only for an entry with              *)
(* now - timestamp < ttl; at now - timestamp = ttl and later it returns     *)
(* None; no verdict served from the cache is older than ttl; with ttl = 0   *)
(* no lookup hits.                                                          *)

C4_GetOnlyWithinTtl ==
    /\ \A t \in Tokens :
          LET got == TokenCache_get(cache, t, now) IN
          /\ got.result # None => Cached(t) /\ now - Entry(t).timestamp < ttl
          /\ Expired(t) => got.result = None
          /\ ttl = 0 => got.result = None
          /\ Cached(t) => Entry(t).timestamp <= now
    /\ \A t \in Tokens :
          ServedFromCache(last, t) =>
              /\ ttl > 0
              /\ Cached(t)
              /\ now - Entry(t).timestamp < ttl
    /\ (IsSuspended(last) /\ last.evicted) => now >= ttl

\* a lookup at exactly now - timestamp = ttl evicted the entry
C4_Witness ==
    /\ IsSuspended(last)
    /\ last.evicted
    /\ ttl > 0
    /\ now = ttl

-----------------------------------------------------------------------------
(* C5: a request without an Authorization header to a handler that depends  *)
(* on get_current_user is answered 401 and the handler body does not run.   *)

C5_NoHeaderRejected ==
    (IsCompleted(last) /\ last.handler.depends /\ last.authorization = None) =>
        /\ last.response.status_code = 401
        /\ last.response.detail = Str("Authentication required")
        /\ ~last.response.ran

C5_Witness ==
    /\ IsCompleted(last)
    /\ last.handler = list_todos
    /\ last.authorization = None
    /\ last.response.status_code = 401

-----------------------------------------------------------------------------
(* C6, as claimed: a request without a valid bearer token to a handler that *)
(* carries the auth_required decoration does not run the handler body,      *)
(* whether or not the handler depends on get_current_user.                  *)

HoldsValidVerdict(state) == Truthy(state.auth) /\ state.auth.valid

C6_Original_DecorationEnforced ==
    (IsCompleted(last) /\ Decorated(last.handler) /\ ~HoldsValidVerdict(last.state)) =>
        ~last.response.ran

-----------------------------------------------------------------------------
(* C7: get_current_user returns the verdict's user exactly when the request *)
(* context holds a valid verdict; with no verdict it raises 401             *)
(* "Authentication required"; with a negative verdict it raises 401 with    *)
(* the verdict's own error text; a handler that depends on it runs only     *)
(* with the user it returned.                                               *)

ErrorTexts ==
    {Str("Invalid token"),
     Str("Validation failed: 500"),
     Str("Validation error: timed out"),
     Str("Validation error: 1 validation error for User")}

C7_CurrentUser ==
    IsCompleted(last) =>
        LET got == get_current_user(last.state) IN
        /\ ("returned" \in DOMAIN got) <=> HoldsValidVerdict(last.state)
        /\ HoldsValidVerdict(last.state) <=> (last.result # None /\ last.result.valid)
        /\ HoldsValidVerdict(last.state) =>
              /\ got.returned = last.result.user
              /\ got.returned # None
        /\ last.state.auth = None =>
              /\ last.result = None
              /\ got = HTTPException(401, Str("Authentication required"))
        /\ (last.state.auth # None /\ ~last.state.auth.valid) =>
              /\ got = HTTPException(401, last.result.error)
              /\ last.result.error \in ErrorTexts
        /\ last.handler.depends =>
              /\ last.response.ran <=> HoldsValidVerdict(last.state)
              /\ last.response.ran => last.response.user = got.returned
              /\ ~last.response.ran =>
                    /\ last.response.status_code = got.raised.status_code
                    /\ last.response.detail = got.raised.detail
                    /\ last.response.user = None

\* a negative verdict with a diagnostic text reached a mandatory-auth handler
C7_Witness ==
    /\ IsCompleted(last)
    /\ last.handler.depends
    /\ last.result # None
    /\ last.response.status_code = 401
    /\ last.response.detail = Str("Validation failed: 500")

-----------------------------------------------------------------------------
(* C8, as claimed: every response with status 200 gives valid = true.       *)

IsResponse(outcome) == outcome # None /\ "status_code" \in DOMAIN outcome

C8_Original_Every200Valid ==
    (IsCompleted(last) /\ IsResponse(last.outcome) /\ last.outcome.status_code = 200) =>
        last.result.valid

(* C8, amended: status 200 with a payload that validates as a User gives    *)
(* valid = true with the user taken from the payload; status 200 with any   *)
(* other payload gives valid = false with the text "Validation error: ..."; *)
(* status 401 gives valid = false, "Invalid token"; any other status gives  *)
(* valid = false, "Validation failed: <status>"; an exception gives         *)
(* valid = false, "Validation error: <message>".  Nothing but a status 200  *)
(* yields valid = true.                                                     *)

C8_OutcomeToVerdict ==
    (IsCompleted(last) /\ last.outbound = 1) =>
        LET o == last.outcome
            v == last.result
        IN
        /\ (IsResponse(o) /\ o.status_code = 200 /\ UserAccepts(o.json)) =>
              /\ v.valid
              /\ v.user # None
              /\ v.user.id = o.json.id
              /\ v.user.username = o.json.username
              /\ v.user.created_at = o.json.created_at
              /\ v.error = None
        /\ (IsResponse(o) /\ o.status_code = 200 /\ ~UserAccepts(o.json)) =>
              /\ ~v.valid
              /\ v.user = None
              /\ v.error = Str("Validation error: 1 validation error for User")
        /\ (IsResponse(o) /\ o.status_code = 401) =>
              /\ ~v.valid
              /\ v.user = None
              /\ v.error = Str("Invalid token")
        /\ (IsResponse(o) /\ o.status_code \notin {200, 401}) =>
              /\ ~v.valid
              /\ v.user = None
              /\ v.error = Str("Validation failed: " \o ToString(o.status_code))
        /\ ~IsResponse(o) =>
              /\ ~v.valid
              /\ v.user = None
              /\ v.error = Str("Validation error: " \o o.raised)
        /\ v.valid => (IsResponse(o) /\ o.status_code = 200)

\* a status 500 was turned into a negative verdict with its diagnostic text
C8_Witness ==
    /\ IsCompleted(last)
    /\ last.outbound = 1
    /\ IsResponse(last.outcome)
    /\ last.outcome.status_code = 500
    /\ last.result.error = Str("Validation failed: 500")

-----------------------------------------------------------------------------
(* C9: a validation that misses the cache issues one outbound call and      *)
(* stores the verdict, valid or not, before returning it: right after it    *)
(* returns, the entry of the token is that verdict, stamped with the        *)
(* current time.                                                            *)

C9_MissStoresVerdict ==
    \A t \in Tokens :
        /\ CallIssued(last, t) => pending[t] >= 1
        /\ ServedByCall(last, t) =>
              /\ Cached(t)
              /\ Entry(t).result = model_dump(last.result)
              /\ LoadResult(Entry(t).result) = last.result
              /\ Entry(t).timestamp = now

\* a negative verdict has just been returned after a miss and is in the cache
C9_Witness ==
    \E t \in Tokens :
        /\ ServedByCall(last, t)
        /\ last.result.error = Str("Invalid token")
        /\ Cached(t)

-----------------------------------------------------------------------------
(* C10: the TokenCache contract.  A lookup of a token with no entry returns *)
(* None, and an entry appears only by a store of that token; after          *)
(* store(t, v) a lookup of t within ttl returns a verdict equal to v; a     *)
(* later store(t, v2) replaces the entry and restarts its ttl; a store of t *)
(* changes the lookup of no other token.                                    *)

Verdicts == {validate_outcome(o) : o \in Outcomes}

C10_State ==
    \A t \in Tokens :
        /\ ~Cached(t) => TokenCache_get(cache, t, now) = [result |-> None, cache |-> cache]
        /\ \A v \in Verdicts :
              LET stored == TokenCache_set(cache, t, v, now) IN
              /\ stored[hash_token(t)].timestamp = now
              /\ \A d \in 0..MaxTime :
                    /\ d < ttl => TokenCache_get(stored, t, now + d).result = v
                    /\ \A u \in Tokens \ {t} :
                          TokenCache_get(stored, u, d).result
                              = TokenCache_get(cache, u, d).result

C10_Step ==
    \A t \in Tokens :
        /\ (~Cached(t) /\ Cached(t)') => ServedByCall(last', t)
        /\ ServedByCall(last', t) =>
              /\ Entry(t)' = [result |-> model_dump(last'.result), timestamp |-> now]
              /\ \A u \in Tokens \ {t} :
                    /\ Cached(u)' = Cached(u)
                    /\ Cached(u) => Entry(u)' = Entry(u)

\* C10: the lookup/store contract of TokenCache
C10_CacheContract == [](C10_State) /\ [][C10_Step]_vars

\* a store of one token at a later time, while the other token's entry,
\* stored earlier with another verdict, is still live
C10_Witness ==
    \E t \in Tokens, u \in Tokens :
        /\ t # u
        /\ ServedByCall(last, t)
        /\ Live(u)
        /\ Entry(u).timestamp < now
        /\ Entry(u).result # Entry(t).result

-----------------------------------------------------------------------------
\* the request of the event carried the bearer token
Carried(e, token) == e # None /\ e.authorization = Str(Bearer \o token)

C11_State ==
    \A k \in DOMAIN cache :
        /\ \E t \in Tokens : k = hash_token(t)
        /\ \A t \in Tokens : k # [raw |-> t]

C11_Step ==
    \A t \in Tokens :
        \* a key appears, disappears or changes its entry only in a step of
        \* a request that carried its token
        /\ (\/ Cached(t)' # Cached(t)
            \/ (Cached(t) /\ Cached(t)' /\ Entry(t)' # Entry(t)))
              => Carried(last', t)
        \* a request answered from the cache reads the entry of its own token
        /\ ServedFromCache(last', t)
              => /\ Cached(t)
                 /\ last'.result = LoadResult(Entry(t).result)
        \* and a store puts the verdict of the request under its own digest
        /\ ServedByCall(last', t)
              => cache'[hash_token(t)].result = model_dump(last'.result)

\* C11: every key of the cache is the digest of a token whose request
\* stored it, never the token itself, and a request reads, evicts and
\* overwrites the entry of its own token only
C11_KeysAreDigests == [](C11_State) /\ [][C11_Step]_vars

\* a request answered from its own entry while the other token's entry
\* holds a different verdict
C11_Witness ==
    /\ \E t \in Tokens :
          /\ ServedFromCache(last, t)
          /\ \E u \in Tokens \ {t} :
                /\ Cached(u)
                /\ Entry(u).result # Entry(t).result
    /\ \A t \in Tokens : [raw |-> t] \notin DOMAIN cache

-----------------------------------------------------------------------------
\* the latest GET of the discovery endpoint ran build_descriptor
Built == served # None /\ served.built

\* ... and build_descriptor returned a descriptor / raised
BuiltReturned == Built /\ IsReturned(served.result)
BuiltRaised == Built /\ ~IsReturned(served.result)

\* the serialized size of the descriptor that build_descriptor assembled
AssembledBytes ==
    IF IsReturned(served.result)
    THEN JsonBytes(dump_exclude_none(served.result.returned))
    ELSE served.result.bytes

\* C12: build_descriptor returns a descriptor exactly when it serializes to
\* at most 8192 bytes and raises otherwise; the descriptor the middleware
\* keeps is never larger
C12_HardCeiling ==
    /\ Built => (IsReturned(served.result) <=> AssembledBytes <= 8 * 1024)
    /\ descriptor # None => JsonBytes(dump_exclude_none(descriptor)) <= 8 * 1024

\* a descriptor of exactly 8192 bytes was returned
C12_Witness == BuiltReturned /\ AssembledBytes = 8 * 1024

\* C13: when build_descriptor raises for size, the discovery endpoint answers
\* 500 with an error payload and no descriptor body, and nothing is kept
C13_OversizeIs500 ==
    /\ BuiltRaised =>
          /\ served.response.status_code = 500
          /\ DOMAIN served.response.content = {"error"}
          /\ served.response.content.error = served.result.message
          /\ descriptor = None
    /\ (served # None /\ served.response.status_code # 500) =>
          /\ IsReturned(served.result)
          /\ served.response.content = dump_exclude_none(served.result.returned)

\* an answer of 500 for a descriptor one byte over the ceiling
C13_Witness ==
    /\ BuiltRaised
    /\ AssembledBytes = 8 * 1024 + 1
    /\ served.response.status_code = 500

\* C14: between the soft and the hard ceiling build_descriptor warns and
\* returns, and the endpoint serves the descriptor with status 200; at or
\* under the soft ceiling there is no warning
C14_SoftCeilingWarns ==
    Built =>
        /\ (AssembledBytes > 3 * 1024 /\ AssembledBytes <= 8 * 1024) =>
              /\ IsReturned(served.result)
              /\ served.result.warned
              /\ served.response.status_code = 200
              /\ served.response.content = dump_exclude_none(served.result.returned)
              /\ descriptor = served.result.returned
        /\ AssembledBytes <= 3 * 1024 =>
              /\ IsReturned(served.result)
              /\ ~served.result.warned

\* a descriptor one byte over the soft ceiling, served with a warning
C14_Witness ==
    /\ BuiltReturned
    /\ AssembledBytes = 3 * 1024 + 1
    /\ served.result.warned
    /\ served.response.status_code = 200

-----------------------------------------------------------------------------
(* The descriptor just built, against the routes it was built from *)

BuiltEndpoints == served.result.returned.endpoints
BuiltSchemas == served.result.returned.schemas
BuiltExamples == served.result.returned.examples
BuiltAuth == served.result.returned.auth

\* the handler of the route carries socket metadata
Described(route) == "socket_meta" \in DOMAIN route.endpoint

\* the endpoint entry is one of the route: its path and one of its methods
EntryOf(ep, route) == ep.path = route.path /\ ep.method \in route.methods

\* the example strings and the schema parts the route's metadata declares
DeclaredExamples(route) ==
    IF Described(route) /\ "examples" \in DOMAIN route.endpoint.socket_meta
       /\ route.endpoint.socket_meta.examples # None
    THEN {route.endpoint.socket_meta.examples.list[i] :
             i \in 1..Len(route.endpoint.socket_meta.examples.list)}
    ELSE {}

DeclaresSchema(route) ==
    /\ Described(route)
    /\ \E k \in {"request_schema", "response_schema"} :
          /\ k \in DOMAIN route.endpoint.socket_meta
          /\ route.endpoint.socket_meta[k] # None

\* C15: a route without socket metadata has no endpoint entry, and every
\* entry, schema key and example of the descriptor comes from a route
\* that carries metadata
C15_OnlyDescribedListed ==
    BuiltReturned =>
        /\ \A j \in 1..Len(served.routes) :
              ~Described(served.routes[j]) =>
                  \A i \in 1..Len(BuiltEndpoints) :
                      ~EntryOf(BuiltEndpoints[i], served.routes[j])
        /\ \A i \in 1..Len(BuiltEndpoints) :
              \E j \in 1..Len(served.routes) :
                  /\ Described(served.routes[j])
                  /\ EntryOf(BuiltEndpoints[i], served.routes[j])
                  /\ BuiltEndpoints[i].summary
                        = served.routes[j].endpoint.socket_meta.summary
        /\ \A p \in DOMAIN BuiltSchemas :
              \E j \in 1..Len(served.routes) :
                  served.routes[j].path = p /\ DeclaresSchema(served.routes[j])
        /\ \A i \in 1..Len(BuiltExamples) :
              \E j \in 1..Len(served.routes) :
                  BuiltExamples[i] \in DeclaredExamples(served.routes[j])

\* a build over a route without metadata and a listed one
C15_Witness ==
    /\ BuiltReturned
    /\ \E j \in 1..Len(served.routes) :
          /\ served.routes[j].cls = "APIRoute"
          /\ served.routes[j].path = "/health"
          /\ ~Described(served.routes[j])
    /\ Len(BuiltEndpoints) > 0

C16_Step ==
    descriptor # None =>
        /\ descriptor' = descriptor
        /\ served' # None =>
              /\ ~served'.built
              /\ served'.response.status_code = 200
              /\ served'.response.content = dump_exclude_none(descriptor)

\* C16: once a descriptor is built it is never replaced, and every later
\* GET serves it without running build_descriptor, whatever the routes
\* have become
C16_BuiltOnce == [][C16_Step]_vars

\* a GET served from the kept descriptor when the routes no longer build to it
C16_Witness ==
    /\ served # None
    /\ ~served.built
    /\ served.response.content = dump_exclude_none(descriptor)
    /\ \A host \in Hosts, order \in MethodOrders :
          build_or_reuse(None, config, served.routes, host, order).result
              # Returned(descriptor, FALSE)
    /\ \A host \in Hosts, order \in MethodOrders :
          build_or_reuse(None, config, served.routes, host, order).result
              # Returned(descriptor, TRUE)

\* C17: endpoint entries and examples of a route registered earlier come
\* before those of a route registered later
C17_RegistrationOrder ==
    BuiltReturned =>
        \A j1, j2 \in 1..Len(served.routes) :
            j1 < j2 =>
                /\ \A i1, i2 \in 1..Len(BuiltEndpoints) :
                      (/\ EntryOf(BuiltEndpoints[i1], served.routes[j1])
                       /\ EntryOf(BuiltEndpoints[i2], served.routes[j2]))
                          => i1 < i2
                /\ \A i1, i2 \in 1..Len(BuiltExamples) :
                      (/\ BuiltExamples[i1] \in DeclaredExamples(served.routes[j1])
                       /\ BuiltExamples[i2] \in DeclaredExamples(served.routes[j2]))
                          => i1 < i2

\* two listed routes, each with endpoint entries and examples
C17_Witness ==
    /\ BuiltReturned
    /\ \E j1, j2 \in 1..Len(served.routes) :
          /\ j1 < j2
          /\ \E i1, i2 \in 1..Len(BuiltEndpoints) :
                /\ EntryOf(BuiltEndpoints[i1], served.routes[j1])
                /\ EntryOf(BuiltEndpoints[i2], served.routes[j2])
          /\ \E i1, i2 \in 1..Len(BuiltExamples) :
                /\ BuiltExamples[i1] \in DeclaredExamples(served.routes[j1])
                /\ BuiltExamples[i2] \in DeclaredExamples(served.routes[j2])

\* the path lies under the discovery path
UnderDiscovery(path) ==
    /\ Len(path) >= Len("/.well-known/socket-agent")
    /\ SubSeq(path, 1, Len("/.well-known/socket-agent")) = "/.well-known/socket-agent"

\* C18: no endpoint entry, schema key or example of the descriptor comes
\* from a route under the discovery path, metadata or not
C18_NoSelfDescription ==
    BuiltReturned =>
        /\ \A i \in 1..Len(BuiltEndpoints) : ~UnderDiscovery(BuiltEndpoints[i].path)
        /\ \A p \in DOMAIN BuiltSchemas : ~UnderDiscovery(p)
        /\ \A j \in 1..Len(served.routes) :
              UnderDiscovery(served.routes[j].path) =>
                  \A i \in 1..Len(BuiltExamples) :
                      BuiltExamples[i] \notin DeclaredExamples(served.routes[j])

\* a build over a described route under the discovery path and a listed one
C18_Witness ==
    /\ BuiltReturned
    /\ \E j \in 1..Len(served.routes) :
          /\ UnderDiscovery(served.routes[j].path)
          /\ Described(served.routes[j])
          /\ DeclaresSchema(served.routes[j])
          /\ DeclaredExamples(served.routes[j]) # {}
    /\ Len(BuiltEndpoints) > 0

-----------------------------------------------------------------------------
\* scope lists a handler may declare
ScopeLists == {<<>>, <<"write:todos">>, <<"admin">>, <<"write:todos", "admin">>}

\* the handler of the event, decorated with another scope list
Redeclared(func, scopes) == auth_required(Func(func.name, func.depends), scopes)

\* C19: a request with a valid verdict runs the handler whatever scopes the
\* handler declares, and the answer to any request is the one it would get
\* had the handler declared any other scope list
C19_ScopesNotEnforced ==
    IsCompleted(last) =>
        /\ HoldsValidVerdict(last.state) =>
              /\ last.response.ran
              /\ last.response.status_code = 200
              /\ last.response.user = last.state.user
        /\ \A scopes \in ScopeLists :
              call_next(last.state, Redeclared(last.handler, scopes)) = last.response

\* a request with a valid verdict admitted to a handler that declares a scope
C19_Witness ==
    /\ IsCompleted(last)
    /\ HoldsValidVerdict(last.state)
    /\ last.handler.socket_auth.scopes = <<"write:todos">>
    /\ last.response.ran

\* C20: the auth type is bearer exactly when a listed endpoint requires
\* auth; otherwise it is none and carries no identity service, audience or
\* server id, whatever routes outside the list declare
C20_AuthType ==
    BuiltReturned =>
        /\ BuiltAuth.type = "bearer"
              <=> \E i \in 1..Len(BuiltEndpoints) : BuiltEndpoints[i].auth_required
        /\ BuiltAuth.type # "bearer" =>
              /\ BuiltAuth.type = "none"
              /\ BuiltAuth.identity_service_url = None
              /\ BuiltAuth.audience = None
              /\ BuiltAuth.server_id = None
              /\ DOMAIN served.response.content.auth = {"type", "optional"}
        /\ BuiltAuth.type = "bearer" =>
              /\ BuiltAuth.identity_service_url = Str("https://socketagent.io")
              /\ BuiltAuth.audience = Str("api")
              /\ BuiltAuth.server_id = config.auth_server_id

\* type none for a list without auth, built over routes that require auth
\* without being listed, for lack of metadata
C20_Witness ==
    /\ BuiltReturned
    /\ BuiltAuth.type = "none"
    /\ Len(BuiltEndpoints) > 0
    /\ \E j \in 1..Len(served.routes) :
          /\ ~Described(served.routes[j])
          /\ "socket_auth" \in DOMAIN served.routes[j].endpoint
          /\ served.routes[j].endpoint.socket_auth.required

-----------------------------------------------------------------------------
\* the route is one build_descriptor lists
Listed(route) ==
    /\ route.cls = "APIRoute"
    /\ Described(route)
    /\ ~(Len(route.path) >= 12 /\ SubSeq(route.path, 1, 12) = "/.well-known")

\* the scopes entry of a route: its declared list, or None for none
DeclaredScopes(route) ==
    IF "socket_auth" \in DOMAIN route.endpoint
       /\ route.endpoint.socket_auth.scopes # <<>>
    THEN [list |-> route.endpoint.socket_auth.scopes]
    ELSE None

DeclaresAuth(route) ==
    "socket_auth" \in DOMAIN route.endpoint /\ route.endpoint.socket_auth.required

\* C21: each method of each listed route has exactly one endpoint entry,
\* with the route's path, summary, auth_required flag and scopes, and
\* every entry is that of a method of a listed route
C21_OnePerRouteMethod ==
    BuiltReturned =>
        /\ \A j \in 1..Len(served.routes) :
              Listed(served.routes[j]) =>
                  \A m \in served.routes[j].methods :
                      /\ Cardinality({i \in 1..Len(BuiltEndpoints) :
                                         /\ BuiltEndpoints[i].path = served.routes[j].path
                                         /\ BuiltEndpoints[i].method = m}) = 1
                      /\ \A i \in 1..Len(BuiltEndpoints) :
                            (/\ BuiltEndpoints[i].path = served.routes[j].path
                             /\ BuiltEndpoints[i].method = m) =>
                                /\ BuiltEndpoints[i].summary
                                      = served.routes[j].endpoint.socket_meta.summary
                                /\ BuiltEndpoints[i].auth_required
                                      = DeclaresAuth(served.routes[j])
                                /\ BuiltEndpoints[i].scopes
                                      = DeclaredScopes(served.routes[j])
        /\ \A i \in 1..Len(BuiltEndpoints) :
              \E j \in 1..Len(served.routes) :
                  /\ Listed(served.routes[j])
                  /\ EntryOf(BuiltEndpoints[i], served.routes[j])

\* a route with two methods gave two entries, next to a route with scopes
C21_Witness ==
    /\ BuiltReturned
    /\ \E j \in 1..Len(served.routes) :
          /\ Listed(served.routes[j])
          /\ Cardinality(served.routes[j].methods) = 2
          /\ Cardinality({i \in 1..Len(BuiltEndpoints) :
                             EntryOf(BuiltEndpoints[i], served.routes[j])}) = 2
    /\ \E i \in 1..Len(BuiltEndpoints) : BuiltEndpoints[i].scopes # None

C30_Step ==
    /\ descriptor = None =>
          \* every GET runs the build, and keeps what it returns, if anything
          /\ served' # None => served'.built
          /\ (served' # None /\ IsReturned(served'.result)) =>
                /\ descriptor' = served'.result.returned
                /\ served'.response.status_code = 200
          /\ (served' # None /\ ~IsReturned(served'.result)) => descriptor' = None
    \* the build runs on the routes as they are at the GET
    /\ (served' # None /\ served'.built) =>
          /\ served'.routes = routes
          /\ \E host \in Hosts, order \in MethodOrders :
                served'.result
                    = build_or_reuse(None, config, routes, host, order).result

\* C30: a build that raises leaves the memoized descriptor unset, every GET
\* while it is unset runs the build again on the current routes, and the
\* first build that returns is memoized
C30_FailureNotMemoized ==
    [](BuiltRaised => descriptor = None) /\ [][C30_Step]_vars

\* a failed build, in a state where dropping one route makes the build fit
C30_Witness ==
    /\ BuiltRaised
    /\ descriptor = None
    /\ routes = served.routes
    /\ \E i \in 2..Len(routes) :
          \A host \in Hosts, order \in MethodOrders :
              IsReturned(build_or_reuse(None, config,
                                        SubSeq(routes, 1, i - 1)
                                            \o SubSeq(routes, i + 1, Len(routes)),
                                        host, order).result)

-----------------------------------------------------------------------------
\* the step is the arrival of a request that carried the bearer token
Arrived(t) == Carried(last', t) /\ pending'[t] >= pending[t]

C22_Step ==
    \A t \in Tokens :
        \* a request that finds no live entry issues a call of its own,
        \* however many calls for the token are in flight already
        /\ (Arrived(t) /\ ~Live(t)) =>
              /\ CallIssued(last', t)
              /\ pending'[t] = pending[t] + 1
              /\ flight'.issued[t] = Append(flight.issued[t], now)
        \* and each request completed after a miss ends one call
        /\ ServedByCall(last', t) =>
              /\ pending'[t] = pending[t] - 1
              /\ Len(flight'.issued[t]) = Len(flight.issued[t]) - 1

\* C22: misses are not coalesced: every request that misses the cache issues
\* its own outbound call, so the calls in flight for a token are as many as
\* the requests suspended on it
C22_MissesNotCoalesced ==
    [](\A t \in Tokens : pending[t] = Len(flight.issued[t])) /\ [][C22_Step]_vars

\* a second request missed while the call of the first was in flight, and
\* issued another
C22_Witness ==
    \E t \in Tokens :
        /\ CallIssued(last, t)
        /\ ~Cached(t)
        /\ pending[t] = 2
        /\ Len(flight.issued[t]) = 2

C23_State ==
    \A t \in Tokens :
        (ServedByCall(last, t) /\ flight.answered # None) =>
            /\ Cached(t)
            /\ Entry(t) = [result |-> model_dump(last.result), timestamp |-> now]
            /\ flight.origin[t] = At(flight.answered.issued)

C23_Step ==
    \A t \in Tokens :
        \* only the end of a call changes an entry already there
        (Cached(t) /\ Cached(t)' /\ Entry(t)' # Entry(t)) => ServedByCall(last', t)

\* C23: when a call ends, its verdict becomes the entry of the token, stamped
\* with the time the call ended, whatever entry was there and whenever the
\* call that stored it was issued
C23_LastCompletionWins == [](C23_State) /\ [][C23_Step]_vars

\* a valid verdict from a call issued earlier replaced the invalid verdict
\* of a call issued later, and no call is left in flight
C23_Witness ==
    \E t \in Tokens :
        /\ ServedByCall(last, t)
        /\ pending[t] = 0
        /\ flight.answered # None
        /\ flight.answered.replaced # None
        /\ flight.answered.replaced.issued # None
        /\ flight.answered.replaced.issued.at > flight.answered.issued
        /\ ~flight.answered.replaced.entry.result.valid
        /\ last.result.valid
        /\ Entry(t).result.valid

-----------------------------------------------------------------------------
\* the cache without the entry of the token
Evicted(c, t) == [k \in DOMAIN c \ {hash_token(t)} |-> c[k]]

C24_State ==
    \A t \in Tokens :
        TokenCache_get(cache, t, now).cache
            = IF Expired(t) THEN Evicted(cache, t) ELSE cache

C24_Step ==
    /\ \A t \in Tokens :
          \* an entry goes only when a lookup of its own token finds it expired
          /\ (Cached(t) /\ ~Cached(t)') =>
                /\ Expired(t)
                /\ CallIssued(last', t)
                /\ last'.evicted
                /\ cache' = Evicted(cache, t)
          /\ (Arrived(t) /\ Expired(t)) => cache' = Evicted(cache, t)
          \* a lookup of a live or absent entry changes nothing
          /\ (Arrived(t) /\ ~Expired(t)) => cache' = cache
    \* and neither does the passing of time, nor a request without a token
    /\ last' = None => cache' = cache
    /\ (IsCompleted(last') /\ last'.result = None) => cache' = cache
    \* a store adds or replaces, and removes nothing
    /\ \A t \in Tokens :
          ServedByCall(last', t) => DOMAIN cache \subseteq DOMAIN cache'

\* C24: an entry is removed only by a lookup of its own token that finds it
\* expired, which removes that entry alone; nothing else removes entries
C24_LazyEvictionOnly == [](C24_State) /\ [][C24_Step]_vars

\* the expired entry of one token was evicted by its lookup while the entry
\* of another token, expired for longer than ttl, stayed
C24_Witness ==
    \E t \in Tokens, u \in Tokens :
        /\ t # u
        /\ CallIssued(last, t)
        /\ last.evicted
        /\ ~Cached(t)
        /\ Cached(u)
        /\ now - Entry(u).timestamp > ttl

C25_Step ==
    \A t \in Tokens :
        \* a hit leaves the entry, timestamp included, as it was
        /\ ServedFromCache(last', t) => (Cached(t)' /\ Entry(t)' = Entry(t))
        \* a timestamp changes only when a call ends and stores its verdict
        /\ (Cached(t) /\ Cached(t)' /\ Entry(t)'.timestamp # Entry(t).timestamp)
              => ServedByCall(last', t)
        \* the first request at or after timestamp + ttl is revalidated
        /\ (Arrived(t) /\ Cached(t) /\ now >= Entry(t).timestamp + ttl)
              => CallIssued(last', t)
        /\ (Arrived(t) /\ Cached(t) /\ now < Entry(t).timestamp + ttl)
              => ServedFromCache(last', t)

\* C25: expiry is absolute: hits do not move the timestamp of an entry, so
\* the entry stored at time t serves until t + ttl and no longer
C25_HitDoesNotRefresh == [][C25_Step]_vars

\* a hit later than the store, the timestamp still that of the store
C25_Witness ==
    \E t \in Tokens :
        /\ ServedFromCache(last, t)
        /\ Entry(t).timestamp < now

\* the header does not begin with "Bearer "
NotBearer(authorization) ==
    \/ authorization = None
    \/ Len(authorization.str) < 7
    \/ SubSeq(authorization.str, 1, 7) # <<"B", "e", "a", "r", "e", "r", " ">>

C26_Step ==
    /\ (IsCompleted(last') /\ NotBearer(last'.authorization)) =>
          /\ cache' = cache
          /\ pending' = pending
          /\ last'.outbound = 0
          /\ last'.result = None
          /\ last'.state = [auth |-> None, user |-> None]
    \* the context of a request with a token is that of its own verdict
    /\ (IsCompleted(last') /\ ~NotBearer(last'.authorization)) =>
          /\ last'.authorization = Str(Bearer \o last'.state.auth.token)
          /\ last'.state.auth.valid = last'.result.valid
          /\ last'.state.user = last'.result.user

\* C26: a request without the exact prefix "Bearer " looks nothing up, issues
\* no call, leaves the cache alone and has auth = None and user = None in
\* its context, whatever the requests before it left
C26_NoBearerNoEffect == [][C26_Step]_vars

\* a lower-case scheme with a token whose valid verdict is cached and live,
\* right after a request that was served that verdict
C26_Witness ==
    /\ IsCompleted(last)
    /\ last.authorization = Str(LowerBearer \o <<"a">>)
    /\ Live(<<"a">>)
    /\ Entry(<<"a">>).result.valid
    /\ last.state = EmptyState
    /\ last.handler.depends
    /\ last.response.status_code = 401

\* C27: every completed request got the response of call_next on the context
\* the middleware attached, whatever the header and the verdict; the
\* middleware answers nothing itself
C27_NeverRejects ==
    IsCompleted(last) =>
        /\ last.response = call_next(last.state, last.handler)
        /\ last.state = IF last.result = None THEN [auth |-> None, user |-> None]
                        ELSE attach(last.state.auth.token, last.result)
        /\ ~last.handler.depends =>
              /\ last.response.ran
              /\ last.response.status_code = 200

\* a request with a negative verdict ran a handler that asks for no user
C27_Witness ==
    /\ IsCompleted(last)
    /\ last.result # None
    /\ ~last.result.valid
    /\ ~last.handler.depends
    /\ last.response.ran
    /\ last.response.status_code = 200

\* the verdict is well formed: a user and no error with valid, no user without
WellFormed(result) ==
    /\ result.valid => (result.user # None /\ result.error = None)
    /\ ~result.valid => result.user = None

\* C28: every verdict built or cached is well formed, the context has a user
\* exactly when its verdict is valid, and get_current_user never fails with
\* "User information not available"
C28_VerdictWellFormed ==
    /\ \A o \in Outcomes : WellFormed(validate_outcome(o))
    /\ \A k \in DOMAIN cache : WellFormed(cache[k].result)
    /\ IsCompleted(last) =>
          /\ last.result # None => WellFormed(last.result)
          /\ last.state.user # None
                <=> (last.state.auth # None /\ last.state.auth.valid)
          /\ last.response.detail # Str("User information not available")

\* a valid and an invalid verdict cached, and a request served the valid one
C28_Witness ==
    \E t \in Tokens, u \in Tokens :
        /\ Cached(t) /\ Entry(t).result.valid
        /\ Cached(u) /\ ~Entry(u).result.valid
        /\ ServedFromCache(last, t)
        /\ last.handler.depends
        /\ last.response.user = last.state.user

-----------------------------------------------------------------------------
\* the oldest call in flight for the token was issued at the given time
OldestIssuedAt(t, time) ==
    Len(flight.issued[t]) > 0 /\ Head(flight.issued[t]) = time

\* the step completed the request whose call was issued at the given time
CompletedCallOf(t, time) ==
    /\ ServedByCall(last, t)
    /\ flight.answered # None
    /\ flight.answered.issued = time
    /\ last.response = call_next(last.state, last.handler)

C29_Step ==
    \A t \in Tokens :
        \* a request with a token either completes on arrival, from the
        \* cache, or issues one call
        /\ Arrived(t) => (ServedFromCache(last', t) \/ CallIssued(last', t))
        \* and the end of its call, whatever the outcome, completes it with
        \* a verdict: no second call, no wait
        /\ pending'[t] < pending[t] =>
              /\ ServedByCall(last', t)
              /\ last'.result = validate_outcome(last'.outcome)
              /\ last'.response = call_next(last'.state, last'.handler)
        /\ Len(flight'.issued[t]) < Len(flight.issued[t]) => pending'[t] < pending[t]

\* C29: given that every outbound call ends, every request with a bearer
\* token reaches the handler chain: on arrival when the cache hits, else when
\* its one call ends, whatever the outcome
C29_ValidationTerminates ==
    /\ [][C29_Step]_vars
    /\ \A time \in 0..MaxTime :
          OldestIssuedAt(<<"a">>, time) ~> CompletedCallOf(<<"a">>, time)

\* a request completed by a call that raised, after waiting
C29_Witness ==
    \E t \in Tokens :
        /\ ServedByCall(last, t)
        /\ "raised" \in DOMAIN last.outcome
        /\ flight.answered # None
        /\ flight.answered.issued < now
        /\ last.response = call_next(last.state, last.handler)

-----------------------------------------------------------------------------
\* the GET of the step answered with a descriptor
ServedDescriptor(s) == s # None /\ s.response.status_code = 200

\* what a GET with the given Host would have done in the state of the step
OutcomeFor(host, order) == build_or_reuse(descriptor, config, routes, host, order)

C31_Step ==
    /\ config' = config
    \* the first successful build takes base_url from the configuration or,
    \* without one, from the request that triggered it
    /\ (descriptor = None /\ descriptor' # None) =>
          /\ served'.built
          /\ descriptor'.base_url = IF config.base_url = None THEN served'.host
                                    ELSE config.base_url.str
    \* and the base_url never changes afterwards
    /\ descriptor # None =>
          /\ descriptor' # None
          /\ descriptor'.base_url = descriptor.base_url
    \* every descriptor served carries it, whatever Host the request has
    /\ (ServedDescriptor(served') /\ served' # served) =>
          /\ descriptor' # None
          /\ served'.response.content.base_url = descriptor'.base_url
    \* with a configured base_url the Host makes no difference at all
    /\ config.base_url # None =>
          \A h1, h2 \in Hosts, order \in MethodOrders :
              OutcomeFor(h1, order) = OutcomeFor(h2, order)

\* C31: without a configured base_url the descriptor's base_url is the
\* scheme and host of the request of the first successful build, and every
\* later request gets that base_url whatever its Host; a configured base_url
\* is used for every request and the Host is not consulted
C31_BaseUrlFixedAtFirstBuild == [][C31_Step]_vars

\* a GET with another Host answered with the base_url of the first build
C31_Witness ==
    /\ config.base_url = None
    /\ ServedDescriptor(served)
    /\ ~served.built
    /\ served.response.content.base_url \in Hosts
    /\ served.response.content.base_url # served.host
    /\ served.response.content.base_url = descriptor.base_url

-----------------------------------------------------------------------------
\* the schema parts a route declares, under the keys of a schema entry
DeclaredFragments(route) ==
    LET meta == route.endpoint.socket_meta
        request == IF "request_schema" \in DOMAIN meta THEN meta.request_schema ELSE None
        response == IF "response_schema" \in DOMAIN meta THEN meta.response_schema ELSE None
        keys == {k \in {"request", "response"} :
                    (IF k = "request" THEN request ELSE response) # None}
    IN  [k \in keys |-> IF k = "request" THEN request ELSE response]

\* the positions of the listed routes with the path, and of those among
\* them that declare a schema
SharingPath(p) ==
    {j \in 1..Len(served.routes) :
        Listed(served.routes[j]) /\ served.routes[j].path = p}

Declaring(p) == {j \in SharingPath(p) : DeclaresSchema(served.routes[j])}

\* the last position of a non-empty set of positions
LastOf(positions) == CHOOSE j \in positions : \A k \in positions : k <= j

\* the schema map has a key for exactly the paths of listed routes that
\* declare a schema
SchemaKeysArePaths ==
    /\ \A p \in DOMAIN BuiltSchemas : Declaring(p) # {}
    /\ \A j \in 1..Len(served.routes) :
          (Listed(served.routes[j]) /\ DeclaresSchema(served.routes[j]))
              => served.routes[j].path \in DOMAIN BuiltSchemas

\* C32: the schema map is keyed by path: it has an entry for p exactly when
\* a listed route with path p declares a schema, and the entry holds only
\* the fragments of the last route with path p that declares one; what an
\* earlier route declared is discarded, and a later route that declares
\* none leaves the entry as it is
C32_SchemasOfLastDeclaringRoute ==
    BuiltReturned =>
        /\ SchemaKeysArePaths
        /\ \A p \in DOMAIN BuiltSchemas :
              BuiltSchemas[p] = DeclaredFragments(served.routes[LastOf(Declaring(p))])

\* the same with the entry taken from the last listed route with the path,
\* whether it declares a schema or not
C32_Original_SchemasOfLastRoute ==
    BuiltReturned =>
        /\ SchemaKeysArePaths
        /\ \A p \in DOMAIN BuiltSchemas :
              BuiltSchemas[p] = DeclaredFragments(served.routes[LastOf(SharingPath(p))])

\* a build over two listed routes with one path that both declare a schema:
\* the entry holds the later route's fragments and none of the earlier one's
C32_Witness ==
    /\ BuiltReturned
    /\ \E j1, j2 \in 1..Len(served.routes) :
          /\ j1 < j2
          /\ j1 \in Declaring(served.routes[j2].path)
          /\ j2 \in Declaring(served.routes[j2].path)
          /\ DOMAIN DeclaredFragments(served.routes[j1])
                 \ DOMAIN DeclaredFragments(served.routes[j2]) # {}
          /\ BuiltSchemas[served.routes[j2].path] = DeclaredFragments(served.routes[j2])

-----------------------------------------------------------------------------
\* the path begins with "/.well-known"
UnderWellKnown(path) ==
    /\ Len(path) >= Len("/.well-known")
    /\ SubSeq(path, 1, Len("/.well-known")) = "/.well-known"

\* C33: no endpoint entry, schema key or example of the descriptor comes
\* from a route whose path begins with "/.well-known", under the discovery
\* path or not, metadata or not
C33_NothingUnderWellKnown ==
    BuiltReturned =>
        /\ \A i \in 1..Len(BuiltEndpoints) : ~UnderWellKnown(BuiltEndpoints[i].path)
        /\ \A p \in DOMAIN BuiltSchemas : ~UnderWellKnown(p)
        /\ \A j \in 1..Len(served.routes) :
              UnderWellKnown(served.routes[j].path) =>
                  \A i \in 1..Len(BuiltExamples) :
                      BuiltExamples[i] \notin DeclaredExamples(served.routes[j])

\* a build over a listed route and a described route under the well-known
\* prefix that is not under the discovery path
C33_Witness ==
    /\ BuiltReturned
    /\ \E j \in 1..Len(served.routes) :
          /\ UnderWellKnown(served.routes[j].path)
          /\ ~UnderDiscovery(served.routes[j].path)
          /\ served.routes[j].cls = "APIRoute"
          /\ Described(served.routes[j])
          /\ DeclaresSchema(served.routes[j])
          /\ DeclaredExamples(served.routes[j]) # {}
    /\ Len(BuiltEndpoints) > 0

=============================================================================
